---- MODULE Spec2Model ----
(***************************************************************************)
(* A model of src/main.py: the StoneGeneratorEngine (fractal value noise,  *)
(* height field, derived PBR maps) and the App that drives it from a       *)
(* worker thread.                                                          *)
(*                                                                         *)
(* Texts (entry contents) are sequences of one-character strings.  Floats  *)
(* are fixed-point integers in units of 1/ONE, together with the value NaN *)
(* for the result of 0/0.                                                  *)
(***************************************************************************)
EXTENDS Integers, Sequences, FiniteSets, TLC

VARIABLES
    ui,       \* the widgets of App: entries, sliders, buttons, progress bar
    threads,  \* the run_process threads, by slot
    eng,      \* the locals of the generate_maps call under way (engine view)
    kept,     \* the outcome of an earlier generate_maps call, kept by its caller
    build     \* what the build does where numpy leaves the result undefined

vars == <<ui, threads, eng, kept, build>>

\* ------------------------------------------------------------------ bounds

MaxThreads == 2

Threads == 1..MaxThreads

\* ------------------------------------------------------------------- texts

Digits == {"0", "1", "2", "3", "4", "5", "6", "7", "8", "9"}

HexDigits == Digits \cup {"a", "b", "c", "d", "e", "f", "A", "B", "C", "D", "E", "F"}

HexVal(c) ==
    CASE c = "0" -> 0 [] c = "1" -> 1 [] c = "2" -> 2 [] c = "3" -> 3
      [] c = "4" -> 4 [] c = "5" -> 5 [] c = "6" -> 6 [] c = "7" -> 7
      [] c = "8" -> 8 [] c = "9" -> 9
      [] c \in {"a", "A"} -> 10 [] c \in {"b", "B"} -> 11
      [] c \in {"c", "C"} -> 12 [] c \in {"d", "D"} -> 13
      [] c \in {"e", "E"} -> 14 [] c \in {"f", "F"} -> 15

\* The text after an optional sign, as int() reads it.
Unsigned(s) == IF s # <<>> /\ s[1] \in {"+", "-"} THEN Tail(s) ELSE s

Sign(s) == IF s # <<>> /\ s[1] = "-" THEN -1 ELSE 1

RECURSIVE Magnitude(_, _)
Magnitude(s, base) ==
    IF s = <<>> THEN 0
    ELSE Magnitude(SubSeq(s, 1, Len(s) - 1), base) * base + HexVal(s[Len(s)])

\* int(s, base) raises ValueError unless s is an optional sign and digits.
IntRaises(s, base) ==
    LET body == Unsigned(s)
        ok   == IF base = 16 THEN HexDigits ELSE Digits
    IN  body = <<>> \/ \E i \in 1..Len(body) : body[i] \notin ok

IntOf(s, base) == Sign(s) * Magnitude(Unsigned(s), base)

\* h[a:b] of Python (0-based, end exclusive, clipped to the text).
Slice(h, a, b) ==
    IF a >= Len(h) THEN <<>>
    ELSE SubSeq(h, a + 1, IF b < Len(h) THEN b ELSE Len(h))

RECURSIVE LStripHash(_)
LStripHash(h) ==
    IF h # <<>> /\ h[1] = "#" THEN LStripHash(Tail(h)) ELSE h

\* App.hex_to_rgb: any exception yields the grey (128,128,128).
hex_to_rgb(h) ==
    LET g     == LStripHash(h)
        parts == <<Slice(g, 0, 2), Slice(g, 2, 4), Slice(g, 4, 6)>>
    IN  IF \E k \in 1..3 : IntRaises(parts[k], 16)
        THEN <<128, 128, 128>>
        ELSE <<IntOf(parts[1], 16), IntOf(parts[2], 16), IntOf(parts[3], 16)>>

\* ----------------------------------------------------------------- floats

ONE == 100

\* The result of 0/0: a value apart from every number the model computes.
NaN == 0 - 1000000 * ONE

Min2(a, b) == IF a < b THEN a ELSE b

Max2(a, b) == IF a > b THEN a ELSE b

Abs(a) == IF a < 0 THEN 0 - a ELSE a

RECURSIVE GCD(_, _)
GCD(a, b) == IF b = 0 THEN a ELSE GCD(b, a % b)

\* Arithmetic of numpy floats: NaN in, NaN out.
FAdd(a, b) == IF a = NaN \/ b = NaN THEN NaN ELSE a + b

FSub(a, b) == IF a = NaN \/ b = NaN THEN NaN ELSE a - b

FMul(a, b) == IF a = NaN \/ b = NaN THEN NaN ELSE (a * b) \div ONE

\* Array division: x/0 warns and yields nan (x = 0) or inf, which the model
\* has no use for since every operand of a zero divisor here is zero itself.
FDiv(a, b) ==
    IF a = NaN \/ b = NaN \/ b = 0 THEN NaN ELSE (a * ONE) \div b

\* np.clip: comparisons with nan are false, so nan passes through.
FClip(a, lo, hi) == IF a = NaN THEN NaN ELSE Max2(lo, Min2(hi, a))

RECURSIVE ISqrtIn(_, _, _)
ISqrtIn(n, lo, hi) ==
    IF lo >= hi THEN lo
    ELSE LET mid == (lo + hi + 1) \div 2
         IN  IF mid * mid <= n THEN ISqrtIn(n, mid, hi) ELSE ISqrtIn(n, lo, mid - 1)

\* np.linalg.norm of a 3-vector.
Norm3(a, b, c) ==
    IF a = NaN \/ b = NaN \/ c = NaN THEN NaN
    ELSE LET n == a * a + b * b + c * c IN ISqrtIn(n, 0, Min2(n, 46340))

\* .astype(np.uint8) of a float in 0..255 truncates; of nan it is undefined
\* and yields what the build yields.
ToUint8(a) == IF a = NaN THEN build.nan_cast ELSE a \div ONE

\* -------------------------------------------------------------- App state

\* What the user can type into the entries and pick in the resolution box.
ResTexts ==
    { <<"2", "0", "4", "8">>, <<"1", "6", "3", "8", "4">>,
      <<"0">>, <<"-", "5">>, <<"a", "b", "c">> }

SeedTexts == { <<"4", "2">>, <<"-", "7">>, <<"4", "2", "x">> }

ColorTexts ==
    { <<"#", "2", "b", "2", "b", "2", "b">>, <<"#", "8", "a", "8", "a", "8", "a">>,
      <<"#", "f", "f", "f">>, <<"z", "z", "z", "z", "z", "z">> }

\* Stops of the octaves slider (from_=1, to=8, number_of_steps=7): both ends
\* and the initial one.
DetailStops == {1, 5, 8}

\* The progress checkpoints of generate_maps, in program order.
Checkpoints ==
    << [val |-> 10, msg |-> "Generating Height Map (Base)..."],
       [val |-> 30, msg |-> "Applying Domain Warping..."],
       [val |-> 40, msg |-> "Refining Details..."],
       [val |-> 50, msg |-> "Generating Albedo..."],
       [val |-> 70, msg |-> "Generating Normal Map (3D Calculation)..."],
       [val |-> 85, msg |-> "Generating Roughness Map..."],
       [val |-> 95, msg |-> "Finalizing Output..."] >>

NumStages == Len(Checkpoints)

WritingReport == [val |-> 90, msg |-> "Writing files to disk..."]

DoneReport == [val |-> 100, msg |-> "Done"]

ErrorReport == [val |-> 0, msg |-> "Error"]

\* The files save_maps writes, in the order it writes them.
MapFiles == <<"Albedo", "Normal", "Roughness", "Height">>

None == [none |-> TRUE]

NoThread ==
    [ pc      |-> "none",   \* where the thread is in run_process
      preview |-> FALSE,
      params  |-> None,
      stage   |-> 0,        \* the checkpoint generate_maps passed last
      reports |-> <<>>,     \* the update_progress calls of this run
      maps    |-> FALSE,    \* generate_maps has returned the material set
      shown   |-> FALSE,    \* show_preview has put the image on the label
      files   |-> {} ]      \* the files of this run on disk

\* App.__init__ / setup_controls.
InitUi ==
    [ res_var         |-> <<"2", "0", "4", "8">>,
      seed_entry      |-> <<"4", "2">>,
      col1_entry      |-> <<"#", "2", "b", "2", "b", "2", "b">>,
      col2_entry      |-> <<"#", "8", "a", "8", "a", "8", "a">>,
      scale_slider    |-> 5 * ONE,
      contrast_slider |-> (12 * ONE) \div 10,
      depth_slider    |-> 5 * ONE,
      detail_slider   |-> 5,
      btn_preview     |-> "normal",
      btn_export      |-> "normal",
      progress_bar    |-> 0,
      status_label    |-> "Ready",
      preview_label   |-> "text" ]

\* App.get_params; continue is the user's answer to the 16K warning.
\* None stands for both returns of None (the declined warning, the ValueError).
get_params(is_preview, continue) ==
    IF IntRaises(ui.res_var, 10) THEN None
    ELSE LET res == IF is_preview THEN 1024 ELSE IntOf(ui.res_var, 10)
         IN  IF res > 8192 /\ ~is_preview /\ ~continue THEN None
             ELSE IF IntRaises(ui.seed_entry, 10) THEN None
             ELSE [ width          |-> res,
                    height         |-> res,
                    seed           |-> IntOf(ui.seed_entry, 10),
                    scale          |-> ui.scale_slider,
                    detail_octaves |-> ui.detail_slider,
                    roughness      |-> ONE,
                    contrast       |-> ui.contrast_slider,
                    depth_strength |-> ui.depth_slider,
                    color1         |-> hex_to_rgb(ui.col1_entry),
                    color2         |-> hex_to_rgb(ui.col2_entry) ]

FreeSlots == {t \in Threads : threads[t].pc = "none"}

\* threading.Thread(target=self.run_process, args=(params, preview)).start()
StartThread(t, params, preview) ==
    [threads EXCEPT ![t] = [NoThread EXCEPT !.pc = "generate",
                                            !.params = params,
                                            !.preview = preview]]

\* A click on 'Generate Preview' (preview) or 'Export Textures': the button
\* calls its command only while its state is not "disabled".
start_generation(preview) ==
    /\ IF preview THEN ui.btn_preview = "normal" ELSE ui.btn_export = "normal"
    /\ FreeSlots # {}
    /\ \E continue \in BOOLEAN :
         LET params == get_params(preview, continue)
             t      == CHOOSE s \in FreeSlots : \A r \in FreeSlots : s <= r
         IN  IF params = None
             THEN UNCHANGED <<ui, threads>>
             ELSE /\ ui' = [ui EXCEPT !.btn_preview = "disabled",
                                      !.btn_export = "disabled"]
                  /\ threads' = StartThread(t, params, preview)
    /\ UNCHANGED <<eng, kept, build>>

\* App.update_progress, called by thread t.
update_progress(u, report) ==
    [u EXCEPT !.progress_bar = report.val, !.status_label = report.msg]

Reported(t, report) == Append(threads[t].reports, report)

\* One stage of generate_maps in thread t, by its control flow alone (the
\* arrays are in the engine view below): the checkpoint is reported, then the
\* stage's arrays are computed, which raises when an allocation or a numpy
\* call fails.  The last stage returns the four maps.
GenerateStage(t) ==
    /\ threads[t].pc = "generate"
    /\ LET k == threads[t].stage + 1
       IN  /\ ui' = update_progress(ui, Checkpoints[k])
           /\ \E raises \in BOOLEAN :
                threads' = [threads EXCEPT
                    ![t].stage = k,
                    ![t].reports = Reported(t, Checkpoints[k]),
                    ![t].maps = (~raises /\ k = NumStages),
                    ![t].pc = IF raises THEN "except"
                              ELSE IF k < NumStages THEN "generate"
                              ELSE IF threads[t].preview THEN "show_preview"
                              ELSE "save_maps"]
    /\ UNCHANGED <<eng, kept, build>>

\* App.show_preview: the conversions and the blend may raise; the label is
\* configured last.
show_preview(t) ==
    /\ threads[t].pc = "show_preview"
    /\ \E raises \in BOOLEAN :
         IF raises
         THEN /\ threads' = [threads EXCEPT ![t].pc = "except"]
              /\ UNCHANGED ui
         ELSE /\ threads' = [threads EXCEPT ![t].pc = "done", ![t].shown = TRUE]
              /\ ui' = [ui EXCEPT !.preview_label = "image"]
    /\ UNCHANGED <<eng, kept, build>>

\* App.save_maps up to the first write: no directory chosen returns at once.
save_maps(t) ==
    /\ threads[t].pc = "save_maps"
    /\ \E chosen \in BOOLEAN :
         IF chosen
         THEN /\ ui' = update_progress(ui, WritingReport)
              /\ threads' = [threads EXCEPT ![t].pc = "write",
                                            ![t].reports = Reported(t, WritingReport)]
         ELSE /\ threads' = [threads EXCEPT ![t].pc = "done"]
              /\ UNCHANGED ui
    /\ UNCHANGED <<eng, kept, build>>

\* One maps[...].save(...) of save_maps; after the fourth, the 'Saved' box.
WriteFile(t) ==
    /\ threads[t].pc = "write"
    /\ LET n == Cardinality(threads[t].files) + 1
       IN  \E raises \in BOOLEAN :
             threads' = [threads EXCEPT
                 ![t].files = IF raises THEN @ ELSE @ \cup {MapFiles[n]},
                 ![t].pc = IF raises THEN "except"
                           ELSE IF n < Len(MapFiles) THEN "write" ELSE "done"]
    /\ UNCHANGED <<ui, eng, kept, build>>

\* run_process after the preview or the save: update_progress(100, "Done").
ReportDone(t) ==
    /\ threads[t].pc = "done"
    /\ ui' = update_progress(ui, DoneReport)
    /\ threads' = [threads EXCEPT ![t].pc = "finally",
                                  ![t].reports = Reported(t, DoneReport)]
    /\ UNCHANGED <<eng, kept, build>>

\* The except clause of run_process.
ReportError(t) ==
    /\ threads[t].pc = "except"
    /\ ui' = update_progress(ui, ErrorReport)
    /\ threads' = [threads EXCEPT ![t].pc = "finally",
                                  ![t].reports = Reported(t, ErrorReport)]
    /\ UNCHANGED <<eng, kept, build>>

\* The finally clause, first statement.
EnablePreview(t) ==
    /\ threads[t].pc = "finally"
    /\ ui' = [ui EXCEPT !.btn_preview = "normal"]
    /\ threads' = [threads EXCEPT ![t].pc = "finally2"]
    /\ UNCHANGED <<eng, kept, build>>

\* The finally clause, second statement; the thread ends.
EnableExport(t) ==
    /\ threads[t].pc = "finally2"
    /\ ui' = [ui EXCEPT !.btn_export = "normal"]
    /\ threads' = [threads EXCEPT ![t].pc = "ended"]
    /\ UNCHANGED <<eng, kept, build>>

\* The thread object of a run that has ended is dropped.
Reap(t) ==
    /\ threads[t].pc = "ended"
    /\ threads' = [threads EXCEPT ![t] = NoThread]
    /\ UNCHANGED <<ui, eng, kept, build>>

\* The user edits an entry, picks a resolution or moves the octaves slider.
EditRes == \E x \in ResTexts : ui' = [ui EXCEPT !.res_var = x]

EditSeed == \E x \in SeedTexts : ui' = [ui EXCEPT !.seed_entry = x]

EditColor1 == \E x \in ColorTexts : ui' = [ui EXCEPT !.col1_entry = x]

EditColor2 == \E x \in ColorTexts : ui' = [ui EXCEPT !.col2_entry = x]

EditDetail == \E x \in DetailStops : ui' = [ui EXCEPT !.detail_slider = x]

Edit ==
    /\ EditRes \/ EditSeed \/ EditColor1 \/ EditColor2 \/ EditDetail
    /\ UNCHANGED <<threads, eng, kept, build>>

\* ----------------------------------------------------------- engine: grids

\* A grid is a tuple of rows, each a tuple of values; its shape is (rows, cols).
Rows(g) == Len(g)

Cols(g) == IF Len(g) = 0 THEN 0 ELSE Len(g[1])

Shape(g) == <<Rows(g), Cols(g)>>

\* The tuple <<F(1), ..., F(n)>> and the grid of F(i, j), built cell by cell.
RECURSIVE Tabulate(_, _)
Tabulate(F(_), n) == IF n = 0 THEN <<>> ELSE Append(Tabulate(F, n - 1), F(n))

Grid(F(_, _), rows, cols) ==
    Tabulate(LAMBDA i : Tabulate(LAMBDA j : F(i, j), cols), rows)

\* F applied to every cell of g.
Map(F(_), g) == Grid(LAMBDA i, j : F(g[i][j]), Rows(g), Cols(g))

Zeros(shape) == Grid(LAMBDA i, j : 0, shape[1], shape[2])

Cells(g) == {g[i][j] : i \in 1..Rows(g), j \in 1..Cols(g)}

\* np.min / np.max: nan if any cell is nan.
GridMin(g) ==
    IF NaN \in Cells(g) THEN NaN
    ELSE CHOOSE m \in Cells(g) : \A c \in Cells(g) : m <= c

GridMax(g) ==
    IF NaN \in Cells(g) THEN NaN
    ELSE CHOOSE m \in Cells(g) : \A c \in Cells(g) : m >= c

RECURSIVE SumTo(_, _)
SumTo(f, n) == IF n = 0 THEN 0 ELSE SumTo(f, n - 1) + f[n]

\* The triangle filter of Image.BILINEAR for output pixel xx and input pixel
\* x (both from 0), enlarging from n_in to n_out pixels: 1 - |x + 0.5 - centre|
\* with centre = (xx + 0.5) * n_in / n_out, in units of 1 / (2 * n_out).
Weight(x, xx, n_in, n_out) ==
    LET d == Abs((2 * x + 1) * n_out - (2 * xx + 1) * n_in)
    IN  IF d < 2 * n_out THEN 2 * n_out - d ELSE 0

\* One output pixel of a pass of the resize: the weights are normalised by
\* their sum.
ResampleAt(row, k, n_out) ==
    LET n_in == Len(row)
        w    == Tabulate(LAMBDA x : Weight(x - 1, k - 1, n_in, n_out), n_in)
    IN  SumTo(Tabulate(LAMBDA x : w[x] * row[x], n_in), n_in) \div SumTo(w, n_in)

Transpose(g) == Grid(LAMBDA j, i : g[i][j], Cols(g), Rows(g))

\* One pass of the resize along every row.
ResampleRows(g, n_out) == Grid(LAMBDA i, k : ResampleAt(g[i], k, n_out), Rows(g), n_out)

\* img.resize((width, height), resample=Image.BILINEAR) and back to an array:
\* the horizontal pass, then the vertical one; the array has height rows.
Resize(img, width, height) ==
    Transpose(ResampleRows(Transpose(ResampleRows(img, width)), height))

\* grid += layer * amp raises unless layer broadcasts to the shape of grid.
Broadcasts(layer_shape, grid_shape) ==
    \A k \in 1..2 : layer_shape[k] = grid_shape[k] \/ layer_shape[k] = 1

AddScaled(grid, layer, amp) ==
    Grid(LAMBDA i, j : grid[i][j] + FMul(layer[IF Rows(layer) = 1 THEN 1 ELSE i]
                                              [IF Cols(layer) = 1 THEN 1 ELSE j], amp),
         Rows(grid), Cols(grid))

\* --------------------------------------------------- engine: the generator

\* The generator's stream is modelled by a small congruential one: what
\* matters is that it is a function of the seed alone.
RngMod == 16

\* default_rng() without the seed: fresh entropy, which differs between calls.
default_rng_unseeded(seed) == IF kept = None THEN 1 ELSE 2

\* np.random.default_rng(seed)
default_rng(seed) == seed % RngMod

RngNext(state) == (5 * state + 3) % RngMod

\* The float in [0, 1) drawn in state `state`.
RngFloat(state) == (state * ONE) \div RngMod

RECURSIVE RngAfter(_, _)
RngAfter(state, n) == IF n = 0 THEN state ELSE RngAfter(RngNext(state), n - 1)

\* rng.random((rows, cols)): filled in row-major order.
RngRandom(state, rows, cols) ==
    Grid(LAMBDA i, j : RngFloat(RngAfter(state, (i - 1) * cols + j)), rows, cols)

\* ------------------------------------------------------ engine: parameters

MaxDim == 3

MaxSeed == 1

MaxOctaves == 2

PERSISTENCE == ONE \div 2

LACUNARITY == 2 * ONE

\* 0.08, the weight of each warp channel.
WARP_WEIGHT == (8 * ONE) \div 100

EngineParams ==
    [ width          : 0..MaxDim,
      height         : 0..MaxDim,
      seed           : (0 - 1)..MaxSeed,
      scale          : {ONE \div 5, (6 * ONE) \div 10, (17 * ONE) \div 10, 5 * ONE},
      detail_octaves : 1..MaxOctaves,
      roughness      : {ONE \div 2, ONE},
      contrast       : {0, ONE \div 2, ONE, (12 * ONE) \div 10, 3 * ONE},
      depth_strength : {5 * ONE},
      color1         : {<<43, 43, 43>>},
      color2         : {<<138, 138, 138>>} ]

\* The parameters of the calls whose outcomes are compared with one another.
CallParams ==
    {p \in EngineParams : /\ p.width = p.height
                          /\ p.width > 0
                          /\ p.roughness = ONE
                          /\ p.contrast = ONE
                          /\ p.detail_octaves = 1}

IdleEngine ==
    [ pc         |-> "idle",
      params     |-> None,
      reports    |-> <<>>,      \* the values given to progress_callback
      channel    |-> "",        \* which noise layer is being generated
      rng_seeds  |-> <<>>,      \* the seeds the generators were made from
      rng        |-> 0,         \* generate_noise_layer: rng
      grid       |-> <<>>,      \*                       grid
      freq       |-> <<0, 1>>,  \*                       freq, a fraction
      amp        |-> 0,         \*                       amp
      max_amp    |-> 0,         \*                       max_amp
      i          |-> 0,         \*                       i
      lattice    |-> <<0, 0>>,  \*          (h_noise, w_noise) of the last octave
      base_noise |-> <<>>,
      warp_x     |-> <<>>,
      warp_y     |-> <<>>,
      structure  |-> <<>>,
      albedo     |-> <<>>,
      normal     |-> <<>>,
      rough      |-> <<>>,
      height     |-> <<>>,
      result     |-> None,
      error      |-> "" ]

\* The arguments of the generate_noise_layer call for a channel.
LayerArgs(p, channel) ==
    CASE channel = "base" ->
           [scale |-> p.scale, seed |-> p.seed, octaves |-> p.detail_octaves]
      [] channel = "warp_x" ->
           [scale |-> p.scale * 2, seed |-> p.seed + 1, octaves |-> 2]
      [] channel = "warp_y" ->
           [scale |-> p.scale * 2, seed |-> p.seed + 2, octaves |-> 2]

Reduce(f) == LET g == GCD(f[1], f[2]) IN <<f[1] \div g, f[2] \div g>>

\* round() in the place of int().
LatticeSizeRounded(dim, freq, limit) ==
    LET n == (2 * dim * freq[1] + freq[2]) \div (2 * freq[2]) + 1
    IN  IF n > limit THEN limit ELSE n

\* int(dim * freq) + 1, at most limit (the `if w_noise > width` of the loop).
LatticeSize(dim, freq, limit) ==
    LET n == (dim * freq[1]) \div freq[2] + 1
    IN  IF n > limit THEN limit ELSE n

Raise(e, what) == [e EXCEPT !.pc = "raised", !.error = what]

BroadcastError == "ValueError: grid += layer * amp: the shapes do not broadcast"

\* The locals of generate_maps(p) at its first checkpoint.
Entered(p) ==
    [IdleEngine EXCEPT !.pc = "layer", !.params = p, !.channel = "base",
                       !.reports = <<Checkpoints[1].val>>]

\* generate_maps up to its first checkpoint.
generate_maps(p) ==
    /\ eng.pc = "idle"
    /\ eng' = Entered(p)
    /\ UNCHANGED <<ui, threads, kept, build>>

\* generate_noise_layer before its loop.
NoiseLayerEnter ==
    /\ eng.pc = "layer"
    /\ LET p  == eng.params
           a  == LayerArgs(p, eng.channel)
           lo == Min2(p.width, p.height)
       IN  eng' =
             IF a.seed < 0
             THEN Raise(eng, "ValueError: default_rng: seed must be non-negative")
             ELSE IF lo < 0
             THEN Raise(eng, "ValueError: zeros: negative dimensions")
             ELSE IF lo = 0
             THEN Raise(eng, "ZeroDivisionError: scale / min(width, height)")
             ELSE [eng EXCEPT !.pc = "octave",
                              !.rng_seeds = Append(@, a.seed),
                              !.rng = default_rng(a.seed),
                              !.grid = Zeros(<<p.width, p.height>>),
                              !.freq = Reduce(<<a.scale, ONE * lo>>),
                              !.amp = ONE,
                              !.max_amp = 0,
                              !.i = 0]
    /\ UNCHANGED <<ui, threads, kept, build>>

\* The end of a turn of the loop, from `grid += layer * amp` on.
Accumulate(e, layer, h_noise, w_noise) ==
    IF ~Broadcasts(Shape(layer), Shape(e.grid))
    THEN Raise([e EXCEPT !.lattice = <<h_noise, w_noise>>], BroadcastError)
    ELSE [e EXCEPT !.lattice = <<h_noise, w_noise>>,
                   !.rng = RngAfter(@, h_noise * w_noise),
                   !.grid = AddScaled(@, layer, e.amp),
                   !.max_amp = @ + e.amp,
                   !.amp = FMul(@, PERSISTENCE),
                   !.freq = Reduce(<<@[1] * LACUNARITY, @[2] * ONE>>),
                   !.i = @ + 1]

\* The lattice of a turn, drawn and resized to the target.
Layer(e, h_noise, w_noise) ==
    Resize(RngRandom(e.rng, h_noise, w_noise), e.params.width, e.params.height)

OctaveTurn(e, h_noise, w_noise) ==
    Accumulate(e, Layer(e, h_noise, w_noise), h_noise, w_noise)

\* One turn of the loop of generate_noise_layer.
NoiseOctave ==
    /\ eng.pc = "octave"
    /\ eng.i < LayerArgs(eng.params, eng.channel).octaves
    /\ eng' = OctaveTurn(eng, LatticeSize(eng.params.height, eng.freq, eng.params.height),
                              LatticeSize(eng.params.width, eng.freq, eng.params.width))
    /\ UNCHANGED <<ui, threads, kept, build>>

\* return grid / max_amp, and what generate_maps does with it up to the next
\* call of generate_noise_layer.
NoiseLayerReturn ==
    /\ eng.pc = "octave"
    /\ eng.i = LayerArgs(eng.params, eng.channel).octaves
    /\ LET out == Map(LAMBDA v : FDiv(v, eng.max_amp), eng.grid)
       IN  eng' =
             CASE eng.channel = "base" ->
                    [eng EXCEPT !.base_noise = out, !.pc = "layer",
                                !.channel = "warp_x",
                                !.reports = Append(@, Checkpoints[2].val)]
               [] eng.channel = "warp_x" ->
                    [eng EXCEPT !.warp_x = out, !.pc = "layer", !.channel = "warp_y"]
               [] eng.channel = "warp_y" ->
                    [eng EXCEPT !.warp_y = out, !.pc = "normalize", !.channel = ""]
    /\ UNCHANGED <<ui, threads, kept, build>>

\* base_noise + 0.08 * warp_x + 0.08 * warp_y
Combined(e) ==
    Grid(LAMBDA i, j : FAdd(FAdd(e.base_noise[i][j], FMul(WARP_WEIGHT, e.warp_x[i][j])),
                            FMul(WARP_WEIGHT, e.warp_y[i][j])),
         Rows(e.base_noise), Cols(e.base_noise))

\* The division by the maximum alone.
NormalizeByMax(g) == Map(LAMBDA v : FDiv(v, GridMax(g)), g)

\* (structure - np.min(structure)) / (np.max(structure) - np.min(structure))
MinMaxNormalize(g) ==
    LET lo == GridMin(g)
        hi == GridMax(g)
    IN  Map(LAMBDA v : FDiv(FSub(v, lo), FSub(hi, lo)), g)

Normalize ==
    /\ eng.pc = "normalize"
    /\ eng' = [eng EXCEPT !.structure = MinMaxNormalize(Combined(eng)),
                          !.pc = "refine"]
    /\ UNCHANGED <<ui, threads, kept, build>>

\* np.clip((structure - 0.5) * contrast_val + 0.5, 0.0, 1.0)
ApplyContrast(g, contrast_val) ==
    Map(LAMBDA v : FClip(FAdd(FMul(FSub(v, ONE \div 2), contrast_val), ONE \div 2),
                         0, ONE), g)

Refine ==
    /\ eng.pc = "refine"
    /\ eng' = [eng EXCEPT !.structure = ApplyContrast(@, eng.params.contrast),
                          !.reports = Append(@, Checkpoints[3].val),
                          !.pc = "albedo"]
    /\ UNCHANGED <<ui, threads, kept, build>>

\* (s * color2 + (1 - s) * color1).astype(np.uint8), per channel
AlbedoPixel(s, color1, color2) ==
    Tabulate(LAMBDA c : ToUint8(FAdd(FMul(s, color2[c] * ONE),
                                     FMul(FSub(ONE, s), color1[c] * ONE))), 3)

Albedo ==
    /\ eng.pc = "albedo"
    /\ eng' = [eng EXCEPT
          !.albedo = Map(LAMBDA v : AlbedoPixel(v, eng.params.color1, eng.params.color2),
                         eng.structure),
          !.reports = Append(@, Checkpoints[4].val),
          !.pc = "normal"]
    /\ UNCHANGED <<ui, threads, kept, build>>

\* np.gradient along a line of n values: central differences inside,
\* one-sided ones at both ends.
Gradient1(f, k, n) ==
    IF k = 1 THEN FSub(f[2], f[1])
    ELSE IF k = n THEN FSub(f[n], f[n - 1])
    ELSE LET d == FSub(f[k + 1], f[k - 1]) IN IF d = NaN THEN NaN ELSE d \div 2

\* ((v / norm + 1) * 0.5 * 255).astype(np.uint8)
NormalByte(v, norm) ==
    IF v = NaN \/ norm = NaN THEN build.nan_cast
    ELSE ((FDiv(v, norm) + ONE) * 255) \div (2 * ONE)

NormalPixel(gx, gy, depth_strength) ==
    LET sx   == FMul(gx, depth_strength * 10)
        sy   == FMul(gy, depth_strength * 10)
        nx   == IF sx = NaN THEN NaN ELSE 0 - sx
        norm == Norm3(nx, sy, ONE)
    IN  <<NormalByte(nx, norm), NormalByte(sy, norm), NormalByte(ONE, norm)>>

\* np.gradient raises on an axis shorter than two.
NormalMap ==
    /\ eng.pc = "normal"
    /\ LET s == eng.structure
           e == [eng EXCEPT !.reports = Append(@, Checkpoints[5].val)]
       IN  eng' =
             IF Rows(s) < 2 \/ Cols(s) < 2
             THEN Raise(e, "ValueError: gradient: shape of array too small")
             ELSE [e EXCEPT
                   !.normal = Grid(LAMBDA i, j :
                       NormalPixel(Gradient1(s[i], j, Cols(s)),
                                   Gradient1(Tabulate(LAMBDA r : s[r][j], Rows(s)),
                                             i, Rows(s)),
                                   eng.params.depth_strength), Rows(s), Cols(s)),
                   !.pc = "roughness"]
    /\ UNCHANGED <<ui, threads, kept, build>>

\* (1 - s) * 255, rescaled about 127.5 unless the factor is 1.0, clipped
RoughPixel(s, roughness_factor) ==
    LET r  == FMul(FSub(ONE, s), 255 * ONE)
        r2 == IF roughness_factor # ONE
              THEN FAdd(FMul(FSub(r, (255 * ONE) \div 2), roughness_factor),
                        (255 * ONE) \div 2)
              ELSE r
    IN  ToUint8(FClip(r2, 0, 255 * ONE))

Roughness ==
    /\ eng.pc = "roughness"
    /\ eng' = [eng EXCEPT
          !.rough = Map(LAMBDA v : RoughPixel(v, eng.params.roughness), eng.structure),
          !.reports = Append(@, Checkpoints[6].val),
          !.pc = "finalize"]
    /\ UNCHANGED <<ui, threads, kept, build>>

\* Image.fromarray: the image is as wide as the array has columns.
ImageOf(arr) == [size |-> <<Cols(arr), Rows(arr)>>, pixels |-> arr]

Finalize ==
    /\ eng.pc = "finalize"
    /\ LET height_arr == Map(LAMBDA v : ToUint8(FMul(v, 255 * ONE)), eng.structure)
       IN  eng' = [eng EXCEPT
              !.height = height_arr,
              !.reports = Append(@, Checkpoints[7].val),
              !.result = [ albedo    |-> ImageOf(eng.albedo),
                           normal    |-> ImageOf(eng.normal),
                           roughness |-> ImageOf(eng.rough),
                           height    |-> ImageOf(height_arr) ],
              !.pc = "returned"]
    /\ UNCHANGED <<ui, threads, kept, build>>

\* What the caller of generate_maps gets: the maps, or the exception.
Outcome(e) == [result |-> e.result, error |-> e.error]

\* The call is over; its caller may keep what it got, and its locals are gone.
\* between tells that a call with other parameters ended after the kept one.
EngineReturn ==
    /\ eng.pc \in {"returned", "raised"}
    /\ eng' = IdleEngine
    /\ \/ /\ kept = None
          /\ kept' = [params |-> eng.params, outcome |-> Outcome(eng),
                      between |-> FALSE]
       \/ /\ kept # None
          /\ kept' = [kept EXCEPT !.between = @ \/ eng.params # kept.params]
       \/ /\ kept = None
          /\ UNCHANGED kept
    /\ UNCHANGED <<ui, threads, build>>

EngineStep ==
    \/ NoiseLayerEnter
    \/ NoiseOctave
    \/ NoiseLayerReturn
    \/ Normalize
    \/ Refine
    \/ Albedo
    \/ NormalMap
    \/ Roughness
    \/ Finalize

\* What a cast of nan to uint8 may yield.
NanCasts == {0, 255}

ThreadStep ==
    \E t \in Threads :
        \/ GenerateStage(t)
        \/ show_preview(t)
        \/ save_maps(t)
        \/ WriteFile(t)
        \/ ReportDone(t)
        \/ ReportError(t)
        \/ EnablePreview(t)
        \/ EnableExport(t)
        \/ Reap(t)

Click == start_generation(TRUE) \/ start_generation(FALSE)

Init ==
    /\ ui = InitUi
    /\ threads = [t \in Threads |-> NoThread]
    /\ eng = IdleEngine
    /\ kept = None
    /\ build \in [nan_cast : NanCasts]

\* The App with its worker threads, the entries left as constructed.
NextApp == Click \/ ThreadStep

SpecApp == Init /\ [][NextApp]_vars

\* The App's input handling: the user edits and clicks.
NextInput == Edit \/ Click

SpecInput == Init /\ [][NextInput]_vars

\* One call of generate_maps, for every parameter record of EngineParams.
InitEngine ==
    /\ ui = InitUi
    /\ threads = [t \in Threads |-> NoThread]
    /\ kept = None
    /\ build \in [nan_cast : NanCasts]
    /\ \E p \in EngineParams : eng = Entered(p)

SpecEngine == InitEngine /\ [][EngineStep]_vars

\* Calls of generate_maps one after the other on one engine.
NextCalls == (\E p \in CallParams : generate_maps(p)) \/ EngineStep \/ EngineReturn

SpecCalls == Init /\ [][NextCalls]_vars

\* Everything at once.  The App view (ui, threads) and the engine view (eng,
\* kept) share no variable, so each is explored by itself above.
Next == NextApp \/ NextInput \/ NextCalls

Spec == Init /\ [][Next]_vars

\* ------------------------------------------------------------- properties

IsPrefix(a, b) == Len(a) <= Len(b) /\ a = SubSeq(b, 1, Len(a))

Vals(reports) == [k \in 1..Len(reports) |-> reports[k].val]

Has(reports, report) == \E k \in 1..Len(reports) : reports[k] = report

\* The reports of a run without its failure report.
Progress(reports) == SelectSeq(reports, LAMBDA r : r # ErrorReport)

RunOver(t) == threads[t].pc \in {"finally", "finally2", "ended"}

CheckpointVals == Vals(Checkpoints)

\* C1: in every run the percentages reported are in non-decreasing order, and
\* the run ends with the report of 100 or with the failure report, never both.
C1_ProgressOrdered ==
    \A t \in Threads :
        LET r == threads[t].reports
            v == Vals(Progress(r))
        IN  /\ \A a, b \in 1..Len(v) : a < b => v[a] <= v[b]
            /\ ~(Has(r, DoneReport) /\ Has(r, ErrorReport))
            /\ RunOver(t) => r[Len(r)] \in {DoneReport, ErrorReport}

\* C2: a run that fails leaves no part of a material set behind (no maps
\* returned to a preview, no file on disk); a run that succeeds has delivered
\* the four maps together.
C2_AllOrNothing ==
    \A t \in Threads :
        /\ threads[t].pc = "except" => threads[t].files = {} /\ ~threads[t].shown
        /\ Has(threads[t].reports, DoneReport) =>
               /\ threads[t].maps
               /\ threads[t].files \in {{}, {MapFiles[k] : k \in 1..Len(MapFiles)}}

\* C8: a successful run reports exactly 10, 30, 40, 50, 70, 85, 95, 100, in
\* that order; a failing run reports a prefix of that and then the failure.
C8_LinearSequence ==
    \A t \in Threads :
        LET r == threads[t].reports
        IN  /\ Has(r, DoneReport) => Vals(r) = CheckpointVals \o <<DoneReport.val>>
            /\ Has(r, ErrorReport) =>
                   /\ r[Len(r)] = ErrorReport
                   /\ IsPrefix(SubSeq(Vals(r), 1, Len(r) - 1), CheckpointVals)

\* C10: generate_maps is never executing in two threads at once.
C10_NoConcurrentGenerate ==
    Cardinality({t \in Threads : threads[t].pc = "generate"}) <= 1

\* A hex colour: six hex digits after an optional '#'.
IsHexColor(h) ==
    LET g == IF h # <<>> /\ h[1] = "#" THEN Tail(h) ELSE h
    IN  Len(g) = 6 /\ \A k \in 1..6 : g[k] \in HexDigits

\* What the entries and the octaves slider hold is well formed.
WellFormedInput ==
    /\ ~IntRaises(ui.seed_entry, 10)
    /\ IsHexColor(ui.col1_entry)
    /\ IsHexColor(ui.col2_entry)
    /\ ui.detail_slider \in 1..8

\* C6: start_generation starts no thread on a seed that is no integer, a
\* colour that is no hex colour, a resolution <= 0 or octaves outside 1..8:
\* a thread is started only on well-formed input and with a resolution > 0.
C6_RejectsMalformed ==
    [][\A t \in Threads :
          (threads[t].pc = "none" /\ threads'[t].pc = "generate") =>
              /\ WellFormedInput
              /\ threads'[t].params.width > 0
              /\ threads'[t].params.height > 0]_vars

Flat(g) == GridMax(g) = GridMin(g)

\* The three noise layers are there, so the combined field is.
Composed == eng.warp_y # <<>>

\* The contrast step has been applied to the structure map.
Refined == eng.albedo # <<>> \/ eng.pc = "albedo"

\* C3: on a flat combined field the structure map is the constant 0.5 field
\* and the run goes on without an error.
C3_FlatFieldGivesHalf ==
    (Composed /\ Flat(Combined(eng))) =>
        /\ eng.pc # "raised"
        /\ eng.pc # "normalize" => Cells(eng.structure) = {ONE \div 2}

\* C4: for positive width and height (and a seed the generator takes) the
\* call completes, and each of the four rasters is width x height.
C4_EveryShapeCompletes ==
    (eng.pc # "idle" /\ eng.params.width > 0 /\ eng.params.height > 0
       /\ eng.params.seed >= 0) =>
        /\ eng.pc # "raised"
        /\ eng.pc = "returned" =>
              \A m \in {eng.result.albedo, eng.result.normal,
                        eng.result.roughness, eng.result.height} :
                  m.size = <<eng.params.width, eng.params.height>>

\* C5, as claimed: for a non-flat combined field and every contrast >= 0 the
\* finished structure map has minimum 0.0 and maximum 1.0.
C5_FullRangeEveryContrast ==
    (Refined /\ ~Flat(Combined(eng)) /\ eng.params.contrast >= 0) =>
        GridMin(eng.structure) = 0 /\ GridMax(eng.structure) = ONE

\* C5, amended: for a non-flat combined field and every contrast >= 1.0 the
\* finished structure map has minimum 0.0 and maximum 1.0.
C5_FullRangeFromUnitContrast ==
    (Refined /\ ~Flat(Combined(eng)) /\ eng.params.contrast >= ONE) =>
        GridMin(eng.structure) = 0 /\ GridMax(eng.structure) = ONE

C5_Witness ==
    /\ Refined
    /\ ~Flat(Combined(eng))
    /\ eng.params.contrast > ONE
    /\ Cardinality(Cells(eng.structure)) >= 3

RECURSIVE Pow(_, _)
Pow(b, n) == IF n = 0 THEN 1 ELSE b * Pow(b, n - 1)

\* An octave's lattice has been drawn: by a finished turn of the loop, or by
\* the turn that raised on the addition.  OctaveDone is that octave's index.
LatticeDrawn ==
    \/ eng.pc = "octave" /\ eng.i >= 1
    \/ eng.pc = "raised" /\ eng.error = BroadcastError

OctaveDone == IF eng.pc = "octave" THEN eng.i - 1 ELSE eng.i

\* dim * f_o as a fraction, f_o = (scale / min(width, height)) * lacunarity^o.
DimTimesFreq(dim, o) ==
    LET a == LayerArgs(eng.params, eng.channel)
    IN  << dim * a.scale * Pow(LACUNARITY, o),
           ONE * Min2(eng.params.width, eng.params.height) * Pow(ONE, o) >>

Truncated(f) == f[1] \div f[2]

Rounded(f) == (2 * f[1] + f[2]) \div (2 * f[2])

\* C9, as claimed: the lattice has round(width * f_o) + 1 columns and
\* round(height * f_o) + 1 rows, each at most the target dimension and at
\* least 1.
C9_LatticeRounds ==
    LatticeDrawn =>
        LET w == eng.params.width
            h == eng.params.height
        IN  eng.lattice = << Max2(1, Min2(h, Rounded(DimTimesFreq(h, OctaveDone)) + 1)),
                             Max2(1, Min2(w, Rounded(DimTimesFreq(w, OctaveDone)) + 1)) >>

\* C9, amended: the lattice has int(width * f_o) + 1 columns and
\* int(height * f_o) + 1 rows (the product truncated, not rounded), each at
\* most the target dimension; that is at least 1.
C9_LatticeTruncates ==
    LatticeDrawn =>
        LET w == eng.params.width
            h == eng.params.height
        IN  /\ eng.lattice = << Min2(h, Truncated(DimTimesFreq(h, OctaveDone)) + 1),
                                Min2(w, Truncated(DimTimesFreq(w, OctaveDone)) + 1) >>
            /\ eng.lattice[1] >= 1 /\ eng.lattice[2] >= 1

\* A second octave whose lattice is smaller than the target and not a point.
C9_Witness ==
    /\ eng.pc = "octave"
    /\ eng.i >= 2
    /\ eng.lattice[2] > 1
    /\ eng.lattice[2] < eng.params.width

\* C7: a call with the parameters of an earlier call has the same outcome,
\* whatever was called in between, and the generators of a call are made
\* from seed, seed + 1 and seed + 2.
C7_Deterministic ==
    /\ (kept # None /\ eng.pc \in {"returned", "raised"}
          /\ eng.params = kept.params) => Outcome(eng) = kept.outcome
    /\ eng.pc # "idle" =>
          LET seed == eng.params.seed
          IN  /\ IsPrefix(eng.rng_seeds, <<seed, seed + 1, seed + 2>>)
              /\ eng.pc = "returned" => Len(eng.rng_seeds) = 3

\* The same parameters again, after a call with other ones, with maps returned.
C7_Witness ==
    /\ kept # None
    /\ eng.pc = "returned"
    /\ eng.params = kept.params
    /\ kept.between
    /\ ~Flat(Combined(eng))

====
